---------------------------- MODULE Spec2Model ----------------------------
(***************************************************************************)
(* Model of src/akaze_inliers.cpp: the driver main(), the command line     *)
(* parser parse_input_options() and the writer save_inliers().             *)
(*                                                                         *)
(* C arrays are 0-based, TLA+ sequences 1-based: argv[k] of the program is *)
(* argv[k+1] here, ptpairs[i] is ptpairs[i+1].  Floating-point pixel       *)
(* coordinates are fixed-point numbers q standing for q / Scale.           *)
(***************************************************************************)
EXTENDS Integers, Sequences, FiniteSets

VARIABLES
    pc,            \* position of main()
    argv,          \* the argument vector, argc = Len(argv)
    options,       \* AKAZEOptions options
    img_path1,     \* string img_path1
    img_path2,     \* string img_path2
    inliers_path,  \* string inliers_path
    argvReads,     \* the argv indices (0-based) parse_input_options has read
    trace,         \* the stages main() has executed, in order
    ret,           \* the return value of main(); NoRet while it runs
    errlog,        \* the kinds of messages written to cerr
    kpts1, kpts2,  \* the keypoints of image 1 and image 2
    dist,          \* dist[a][b]: distance of descriptor a of desc1 to b of desc2
    matchersRun,   \* the matchers knnMatch was called on, in call order
    dmatches,      \* vector<vector<DMatch>> dmatches
    matches,       \* vector<Point2f> matches (NNDR candidates, two per pair)
    homography,    \* whether the estimator fitted a homography
    inliers,       \* vector<Point2f> inliers
    ptpairs,       \* save_inliers' by-value copy of the list
    idx,           \* the loop variable i of save_inliers
    accessed,      \* the indices (0-based) at which save_inliers read ptpairs
    file,          \* what this run wrote to the destination
    fstate,        \* "untouched", "open", "closed" or "failed" (open failed)
    saveRet        \* the return value of save_inliers; NoRet before it returns

vars == << pc, argv, options, img_path1, img_path2, inliers_path, argvReads,
           trace, ret, errlog, kpts1, kpts2, dist, matchersRun, dmatches,
           matches, homography, inliers, ptpairs, idx, accessed, file,
           fstate, saveRet >>

-----------------------------------------------------------------------------
(* Bounds of the model *)

MaxOptArgs == 2     \* arguments after the two image paths
MaxKpts == 5        \* keypoints per image in a run of main()
MaxPts == 4         \* length of a list handed to save_inliers on its own
MaxCoord == 3       \* largest fractional coordinate offset, in 1/Scale pixels
Scale == 4          \* fixed-point resolution: q stands for q / Scale pixels
MaxDist == 5        \* descriptor distances range over MaxDist-2..MaxDist
MaxQuery == 2       \* descriptors of image 1 when the matcher runs on its own

NoRet == [done |-> FALSE, value |-> 0]       \* no value returned yet
Ret(v) == [done |-> TRUE, value |-> v]       \* the value v was returned
Garbage == "<garbage>"   \* a string read through an invalid pointer

-----------------------------------------------------------------------------
(* Program constants *)

DRATIO_DEN == 100
DRATIO_Loose == DRATIO_DEN   \* a ratio of 1.00
DRATIO == 80        \* 0.80f, in hundredths
KNN == 2            \* the k of knnMatch(desc1, desc2, dmatches, 2)

\* enum DESCRIPTOR_TYPE of lib/AKAZEConfig.h, as used by lines 116 and 249
MLDB_UPRIGHT == 4
MLDB == 5


-----------------------------------------------------------------------------
(* parse_input_options *)

ValueOptions ==
    { "--soffset", "--omax", "--dthreshold", "--sderivatives", "--nsublevels",
      "--diffusivity", "--descriptor", "--descriptor_channels",
      "--descriptor_size", "--show_results", "--output" }

\* the tokens of the model that begin with "--" (strncmp(argv[i], "--", 2))
DashTokens == ValueOptions \cup { "--verbose", "--help", "--bogus" }

NumTokens == { "-1", "2", "4", "9" }

Tokens == DashTokens \cup NumTokens \cup { "a.png" }

\* atoi: the value of a numeral, 0 for a string that starts with no number
Atoi(tok) ==
    CASE tok = "-1" -> -1
      [] tok = "2" -> 2
      [] tok = "4" -> 4
      [] tok = "9" -> 9
      [] OTHER -> 0

\* atof, in thousandths
Atof(tok) == 1000 * Atoi(tok)

\* AKAZEOptions(): the defaults of the fields the parser can set
AKAZEOptions ==
    [ soffset |-> 1600, omax |-> 4, dthreshold |-> 1, sderivatives |-> 1000,
      nsublevels |-> 4, diffusivity |-> 1, descriptor |-> MLDB,
      descriptor_channels |-> 3, descriptor_size |-> 0,
      show_results |-> FALSE, verbosity |-> FALSE ]

\* options.descriptor after "--descriptor v"
ClampDescriptor(v) == IF v < 0 \/ v > MLDB THEN MLDB ELSE v

\* the assignment made for value option opt with value string val
SetOption(st, opt, val) ==
    CASE opt = "--soffset" -> [st EXCEPT !.options.soffset = Atof(val)]
      [] opt = "--omax" -> [st EXCEPT !.options.omax = Atof(val) \div 1000]
      [] opt = "--dthreshold" -> [st EXCEPT !.options.dthreshold = Atof(val)]
      [] opt = "--sderivatives" ->
            [st EXCEPT !.options.sderivatives = Atof(val)]
      [] opt = "--nsublevels" -> [st EXCEPT !.options.nsublevels = Atoi(val)]
      [] opt = "--diffusivity" -> [st EXCEPT !.options.diffusivity = Atoi(val)]
      [] opt = "--descriptor" ->
            [st EXCEPT !.options.descriptor = ClampDescriptor(Atoi(val))]
      [] opt = "--descriptor_channels" ->
            [st EXCEPT !.options.descriptor_channels =
                IF Atoi(val) <= 0 \/ Atoi(val) > 3 THEN 3 ELSE Atoi(val)]
      [] opt = "--descriptor_size" ->
            [st EXCEPT !.options.descriptor_size =
                IF Atoi(val) < 0 THEN 0 ELSE Atoi(val)]
      [] opt = "--show_results" ->
            [st EXCEPT !.options.show_results = (Atoi(val) # 0)]
      [] opt = "--output" -> [st EXCEPT !.inliers_path = val]

\* for (int i = 3; i < argc; i++) { ... }, from loop index i on
RECURSIVE ParseLoop(_, _, _)
ParseLoop(av, i, st) ==
    IF i >= Len(av) THEN st
    ELSE LET tok == av[i + 1]
             st1 == [st EXCEPT !.reads = @ \cup {i}]
         IN  IF tok \in ValueOptions
             THEN IF i + 1 >= Len(av)
                  THEN [st1 EXCEPT !.err = @ \cup {"options"}, !.ret = -1]
                  ELSE ParseLoop(av, i + 2,
                           SetOption([st1 EXCEPT !.reads = @ \cup {i + 1}],
                                     tok, av[i + 2]))
             ELSE IF tok = "--verbose"
             THEN ParseLoop(av, i + 1, [st1 EXCEPT !.options.verbosity = TRUE])
             ELSE IF tok \in DashTokens
             THEN ParseLoop(av, i + 1, [st1 EXCEPT !.err = @ \cup {"unknown"}])
             ELSE ParseLoop(av, i + 1, st1)

\* parse_input_options(options, img_path1, img_path2, inliers_path, argc, argv)
\* from the caller's current values st0; ub: an argv entry at index >= argc
\* was used as a string
ParseInputOptions(av, st0) ==
    IF Len(av) = 1
    THEN [st0 EXCEPT !.err = @ \cup {"help"}, !.ret = -1]
    ELSE IF Len(av) >= 2
    THEN LET st1 == [st0 EXCEPT !.inliers_path = "./inliers.json",
                                !.options = AKAZEOptions,
                                !.reads = @ \cup {1}]
         IN  IF av[2] = "--help"
             THEN [st1 EXCEPT !.err = @ \cup {"help"}, !.ret = -1]
             ELSE LET st2 == [st1 EXCEPT
                                 !.img_path1 = av[2],
                                 !.img_path2 = IF 2 < Len(av) THEN av[3]
                                               ELSE Garbage,
                                 !.reads = @ \cup {2},
                                 !.ub = ~(2 < Len(av))]
                  IN  ParseLoop(av, 3, st2)
    ELSE [st0 EXCEPT !.err = @ \cup {"options", "help"}, !.ret = -1]

\* the values main() holds when it calls the parser
ParseStart ==
    [ options |-> options, img_path1 |-> img_path1, img_path2 |-> img_path2,
      inliers_path |-> inliers_path, reads |-> {}, err |-> {}, ret |-> 0,
      ub |-> FALSE ]


-----------------------------------------------------------------------------
(* Keypoints, descriptors and matching *)

\* keypoint c of image 1 and of image 2, in fixed point
Kpt1(c) == [x |-> c, y |-> 10 * Scale + 2 * c + 1]
Kpt2(c) == [x |-> 10 * Scale + 2 * c + 1, y |-> c]

DistVals == (MaxDist - 2)..MaxDist

\* MatcherFor with the comparison made inclusive
MatcherForInclusive(descriptor) ==
    IF descriptor <= MLDB_UPRIGHT THEN "BruteForce" ELSE "BruteForce-Hamming"

\* if (options.descriptor < MLDB_UPRIGHT) matcher_l2 else matcher_l1
MatcherFor(descriptor) ==
    IF descriptor < MLDB_UPRIGHT THEN "BruteForce" ELSE "BruteForce-Hamming"

\* the train index (1-based) nearest to the query among those not in done:
\* smallest distance, and the lower index among equals
NearestTrain(row, done) ==
    CHOOSE j \in (1..Len(row)) \ done :
        \A l \in (1..Len(row)) \ done :
            row[j] < row[l] \/ (row[j] = row[l] /\ j <= l)

\* the k nearest neighbours of one query, nearest first
RECURSIVE KnnRow(_, _, _, _)
KnnRow(q, row, k, done) ==
    IF k = 0 \/ done = 1..Len(row) THEN << >>
    ELSE LET j == NearestTrain(row, done)
         IN  << [queryIdx |-> q - 1, trainIdx |-> j - 1, distance |-> row[j]] >>
             \o KnnRow(q, row, k - 1, done \cup {j})

\* matcher->knnMatch(desc1, desc2, dmatches, k)
KnnMatch(d, k) == [q \in 1..Len(d) |-> KnnRow(q, d[q], k, {})]

\* matches2points_nndr(train, query, matches, pmatches, nndr), from entry i on
RECURSIVE Matches2PointsNndr(_, _, _, _, _)
Matches2PointsNndr(train, query, dm, nndr, i) ==
    IF i > Len(dm) THEN << >>
    ELSE LET rest == Matches2PointsNndr(train, query, dm, nndr, i + 1)
         IN  IF Len(dm[i]) < 2 THEN rest
             ELSE IF DRATIO_DEN * dm[i][1].distance < nndr * dm[i][2].distance
             THEN << train[dm[i][1].queryIdx + 1].pt,
                     query[dm[i][1].trainIdx + 1].pt >> \o rest
             ELSE rest

\* the pairs of list m whose number (1-based) is in S, in the order of m
RECURSIVE SelectPairs(_, _, _)
SelectPairs(m, S, k) ==
    IF 2 * k > Len(m) THEN << >>
    ELSE (IF k \in S THEN << m[2 * k - 1], m[2 * k] >> ELSE << >>)
         \o SelectPairs(m, S, k + 1)

\* compute_inliers_ransac(matches, inliers, error, false): the results the
\* randomised estimator can produce
ComputeInliersRansac(m) ==
    LET n == Len(m) \div 2
    IN  IF n < 4
        THEN { [error |-> "InsufficientCorrespondences", homography |-> FALSE,
                inliers |-> << >>] }
        ELSE { [error |-> "DegenerateGeometry", homography |-> FALSE,
                inliers |-> << >>] }
             \cup { [error |-> "none", homography |-> TRUE,
                     inliers |-> SelectPairs(m, S, 1)] :
                    S \in { T \in SUBSET (1..n) : Cardinality(T) >= 4 } }

-----------------------------------------------------------------------------
(* save_inliers *)

\* RoundCoord without the added half: (int)(v)
RoundCoordTruncated(q) ==
    IF q >= 0 THEN q \div Scale ELSE -((-q) \div Scale)

\* (int)(v + .5) of the coordinate q / Scale: C truncates toward zero
RoundCoord(q) ==
    IF 2 * q + Scale >= 0 THEN (2 * q + Scale) \div (2 * Scale)
    ELSE -((-(2 * q + Scale)) \div (2 * Scale))

Digit(d) ==
    CASE d = 0 -> "0" [] d = 1 -> "1" [] d = 2 -> "2" [] d = 3 -> "3"
      [] d = 4 -> "4" [] d = 5 -> "5" [] d = 6 -> "6" [] d = 7 -> "7"
      [] d = 8 -> "8" [] d = 9 -> "9"

\* ostream << int: the decimal digits, one character each
RECURSIVE IntToChars(_)
IntToChars(n) ==
    IF n < 0 THEN << "-" >> \o IntToChars(-n)
    ELSE IF n < 10 THEN << Digit(n) >>
    ELSE IntToChars(n \div 10) \o << Digit(n % 10) >>

\* the string literals save_inliers writes
Header == "{\"points\": ["
Separator == ", "
RecOpen == "{"
PatternX == "\"pattern_point\": {\"x\": "
CoordY == ", \"y\": "
PatternEnd == "}, "
ImageX == "\"image_point\": {\"x\": "
ImageEnd == "}"
RecClose == "}"
Footer == "]}"
Endl == "\n"

\* the separator written before the record of loop index i
RecordSeparator(i) == IF i > 0 THEN << Separator >> ELSE << >>

\* RecordText with the two points of the pair exchanged
RecordTextSwapped(i, p1, p2) ==
    RecordSeparator(i)
    \o << RecOpen, PatternX >> \o IntToChars(RoundCoord(p2.x))
    \o << CoordY >> \o IntToChars(RoundCoord(p2.y))
    \o << PatternEnd, ImageX >> \o IntToChars(RoundCoord(p1.x))
    \o << CoordY >> \o IntToChars(RoundCoord(p1.y))
    \o << ImageEnd, RecClose, Endl >>

\* one pass of the loop body at index i over the points p1 = ptpairs[i] and
\* p2 = ptpairs[i+1]: what it appends to the file
RecordText(i, p1, p2) ==
    RecordSeparator(i)
    \o << RecOpen, PatternX >> \o IntToChars(RoundCoord(p1.x))
    \o << CoordY >> \o IntToChars(RoundCoord(p1.y))
    \o << PatternEnd, ImageX >> \o IntToChars(RoundCoord(p2.x))
    \o << CoordY >> \o IntToChars(RoundCoord(p2.y))
    \o << ImageEnd, RecClose, Endl >>

\* FooterText without the closing bracket
FooterTextNoBracket == << Endl >>

\* what follows the last record
FooterText == << Footer, Endl >>


-----------------------------------------------------------------------------
(* Inputs *)

SeqsUpTo(S, n) == UNION { [1..k -> S] : k \in 0..n }

\* argument vectors: the program name, up to two leading arguments drawn
\* from head, and behind two of them up to MaxOptArgs arguments from tail
Argvs(head, tail) ==
    { << "prog" >> \o h : h \in SeqsUpTo(head, 1) }
    \cup { << "prog" >> \o h \o t :
             h \in [1..2 -> head], t \in SeqsUpTo(tail, MaxOptArgs) }

MainArgvs ==
    Argvs({ "a.png", "--help" }, { "--descriptor", "--output", "2", "4", "9" })

ParseArgvs == Argvs({ "a.png", "--help", "--output", "9" }, Tokens)

\* the points of a list handed to save_inliers
PointsDomain == { Kpt1(c) : c \in 0..MaxCoord }

\* the descriptor distances of n1 queries to n2 train descriptors when the
\* first m queries have one clearly nearest neighbour and the others none
SceneDist(n1, n2, m) ==
    [q \in 1..n1 |->
        [j \in 1..n2 |->
            IF q <= m /\ j = ((q - 1) % n2) + 1 THEN MaxDist - 2
            ELSE MaxDist]]

-----------------------------------------------------------------------------
(* main *)

Stage(name) == trace' = Append(trace, name)

\* line 66: the call of parse_input_options and the test of its result
ParseOptions ==
    /\ pc = "parse"
    /\ LET r == ParseInputOptions(argv, ParseStart)
       IN  /\ ~r.ub
           /\ options' = r.options
           /\ img_path1' = r.img_path1
           /\ img_path2' = r.img_path2
           /\ inliers_path' = r.inliers_path
           /\ argvReads' = r.reads
           /\ errlog' = errlog \cup r.err
           /\ IF r.ret # 0
              THEN pc' = "exit" /\ ret' = Ret(-1)
              ELSE pc' = "load1" /\ ret' = ret
    /\ Stage("parse")
    /\ UNCHANGED << argv, kpts1, kpts2, dist, matchersRun, dmatches, matches,
                    homography, inliers, ptpairs, idx, accessed, file, fstate,
                    saveRet >>

\* line 66 when the parser uses argv[argc] as a string (undefined behaviour):
\* the process dies, or runs on with whatever the read produced
ParseOptionsUB ==
    /\ pc = "parse"
    /\ LET r == ParseInputOptions(argv, ParseStart)
       IN  /\ r.ub
           /\ options' = r.options
           /\ img_path1' = r.img_path1
           /\ img_path2' = r.img_path2
           /\ inliers_path' = r.inliers_path
           /\ argvReads' = r.reads
           /\ errlog' = errlog \cup r.err
           /\ \E outcome \in { "crash", "continue" } :
                 IF outcome = "crash" THEN pc' = "crashed" /\ ret' = ret
                 ELSE IF r.ret # 0 THEN pc' = "exit" /\ ret' = Ret(-1)
                 ELSE pc' = "load1" /\ ret' = ret
    /\ Stage("parse")
    /\ UNCHANGED << argv, kpts1, kpts2, dist, matchersRun, dmatches, matches,
                    homography, inliers, ptpairs, idx, accessed, file, fstate,
                    saveRet >>

\* LoadImage1 without the return of line 73
LoadImage1NoReturn ==
    /\ pc = "load1"
    /\ \E loaded \in BOOLEAN :
          IF loaded THEN pc' = "load2" /\ ret' = ret /\ errlog' = errlog
          ELSE pc' = "load2" /\ ret' = ret
               /\ errlog' = errlog \cup {"image1"}
    /\ Stage("load1")
    /\ UNCHANGED << argv, options, img_path1, img_path2, inliers_path,
                    argvReads, kpts1, kpts2, dist, matchersRun, dmatches,
                    matches, homography, inliers, ptpairs, idx, accessed,
                    file, fstate, saveRet >>

\* lines 70-74
LoadImage1 ==
    /\ pc = "load1"
    /\ \E loaded \in BOOLEAN :
          IF loaded THEN pc' = "load2" /\ ret' = ret /\ errlog' = errlog
          ELSE pc' = "exit" /\ ret' = Ret(-1)
               /\ errlog' = errlog \cup {"image1"}
    /\ Stage("load1")
    /\ UNCHANGED << argv, options, img_path1, img_path2, inliers_path,
                    argvReads, kpts1, kpts2, dist, matchersRun, dmatches,
                    matches, homography, inliers, ptpairs, idx, accessed,
                    file, fstate, saveRet >>

\* lines 77-81
LoadImage2 ==
    /\ pc = "load2"
    /\ \E loaded \in BOOLEAN :
          IF loaded THEN pc' = "extract" /\ ret' = ret /\ errlog' = errlog
          ELSE pc' = "exit" /\ ret' = Ret(-1)
               /\ errlog' = errlog \cup {"image2"}
    /\ Stage("load2")
    /\ UNCHANGED << argv, options, img_path1, img_path2, inliers_path,
                    argvReads, kpts1, kpts2, dist, matchersRun, dmatches,
                    matches, homography, inliers, ptpairs, idx, accessed,
                    file, fstate, saveRet >>

\* lines 84-109: scale spaces, keypoints and descriptors of both images
ExtractFeatures ==
    /\ pc = "extract"
    /\ \E n1 \in 0..MaxKpts, n2 \in 0..MaxKpts :
          \E m \in 0..n1 :
             /\ kpts1' = [q \in 1..n1 |-> [pt |-> Kpt1(q - 1)]]
             /\ kpts2' = [j \in 1..n2 |-> [pt |-> Kpt2(j - 1)]]
             /\ dist' = SceneDist(n1, n2, m)
    /\ pc' = "knn"
    /\ Stage("extract")
    /\ UNCHANGED << argv, options, img_path1, img_path2, inliers_path,
                    argvReads, ret, errlog, matchersRun, dmatches, matches,
                    homography, inliers, ptpairs, idx, accessed, file, fstate,
                    saveRet >>

\* lines 113-119
MatchDescriptors ==
    /\ pc = "knn"
    /\ matchersRun' = Append(matchersRun, MatcherFor(options.descriptor))
    /\ dmatches' = KnnMatch(dist, KNN)
    /\ pc' = "nndr"
    /\ Stage("knn")
    /\ UNCHANGED << argv, options, img_path1, img_path2, inliers_path,
                    argvReads, ret, errlog, kpts1, kpts2, dist, matches,
                    homography, inliers, ptpairs, idx, accessed, file, fstate,
                    saveRet >>

\* line 122
NndrFilter ==
    /\ pc = "nndr"
    /\ matches' = matches \o Matches2PointsNndr(kpts1, kpts2, dmatches, DRATIO, 1)
    /\ pc' = "ransac"
    /\ Stage("nndr")
    /\ UNCHANGED << argv, options, img_path1, img_path2, inliers_path,
                    argvReads, ret, errlog, kpts1, kpts2, dist, matchersRun,
                    dmatches, homography, inliers, ptpairs, idx, accessed,
                    file, fstate, saveRet >>

\* line 124: the call returns nothing, whatever the estimator met
ComputeInliers ==
    /\ pc = "ransac"
    /\ \E r \in ComputeInliersRansac(matches) :
          /\ inliers' = inliers \o r.inliers
          /\ homography' = r.homography
    /\ pc' = "save"
    /\ Stage("ransac")
    /\ UNCHANGED << argv, options, img_path1, img_path2, inliers_path,
                    argvReads, ret, errlog, kpts1, kpts2, dist, matchersRun,
                    dmatches, matches, ptpairs, idx, accessed, file, fstate,
                    saveRet >>


\* SaveOpen returning 0 when the destination cannot be opened
SaveOpenReturnsZero ==
    /\ pc = "save"
    /\ ptpairs' = inliers
    /\ \E opened \in BOOLEAN :
          IF opened
          THEN /\ fstate' = "open"
               /\ file' = << Header, Endl >>
               /\ idx' = 0
               /\ pc' = "save_loop"
               /\ UNCHANGED << errlog, saveRet, ret >>
          ELSE /\ fstate' = "failed"
               /\ errlog' = errlog \cup {"open"}
               /\ saveRet' = Ret(0)
               /\ ret' = Ret(0)
               /\ pc' = "exit"
               /\ UNCHANGED << file, idx >>
    /\ Stage("save")
    /\ UNCHANGED << argv, options, img_path1, img_path2, inliers_path,
                    argvReads, kpts1, kpts2, dist, matchersRun, dmatches,
                    matches, homography, inliers, accessed >>

\* line 127 and lines 131-142: the call (ptpairs is passed by value) and the
\* opening of the destination; main() ignores the value returned and ends
SaveOpen ==
    /\ pc = "save"
    /\ ptpairs' = inliers
    /\ \E opened \in BOOLEAN :
          IF opened
          THEN /\ fstate' = "open"
               /\ file' = << Header, Endl >>
               /\ idx' = 0
               /\ pc' = "save_loop"
               /\ UNCHANGED << errlog, saveRet, ret >>
          ELSE /\ fstate' = "failed"
               /\ errlog' = errlog \cup {"open"}
               /\ saveRet' = Ret(-1)
               /\ ret' = Ret(0)
               /\ pc' = "exit"
               /\ UNCHANGED << file, idx >>
    /\ Stage("save")
    /\ UNCHANGED << argv, options, img_path1, img_path2, inliers_path,
                    argvReads, kpts1, kpts2, dist, matchersRun, dmatches,
                    matches, homography, inliers, accessed >>

\* lines 144-158: one pass of the loop, both points inside the list
SaveRecord ==
    /\ pc = "save_loop"
    /\ idx < Len(ptpairs)
    /\ idx + 1 < Len(ptpairs)
    /\ accessed' = accessed \cup {idx, idx + 1}
    /\ file' = file \o RecordText(idx, ptpairs[idx + 1], ptpairs[idx + 2])
    /\ idx' = idx + 2
    /\ UNCHANGED << pc, argv, options, img_path1, img_path2, inliers_path,
                    argvReads, trace, ret, errlog, kpts1, kpts2, dist,
                    matchersRun, dmatches, matches, homography, inliers,
                    ptpairs, fstate, saveRet >>

\* what a read behind the end of the vector can do
PastEndReads ==
    { [crash |-> TRUE, pt |-> Kpt1(0)] }
    \cup { [crash |-> FALSE, pt |-> g] : g \in PointsDomain }

\* lines 144-158: the pass that reads ptpairs[i+1] behind the last element
\* (undefined behaviour): the process dies, or the read yields some point
SaveRecordPastEnd ==
    /\ pc = "save_loop"
    /\ idx < Len(ptpairs)
    /\ ~(idx + 1 < Len(ptpairs))
    /\ accessed' = accessed \cup {idx, idx + 1}
    /\ \E outcome \in PastEndReads :
          IF outcome.crash
          THEN pc' = "crashed" /\ UNCHANGED << file, idx >>
          ELSE /\ file' = file \o RecordText(idx, ptpairs[idx + 1], outcome.pt)
               /\ idx' = idx + 2
               /\ pc' = pc
    /\ UNCHANGED << argv, options, img_path1, img_path2, inliers_path,
                    argvReads, trace, ret, errlog, kpts1, kpts2, dist,
                    matchersRun, dmatches, matches, homography, inliers,
                    ptpairs, fstate, saveRet >>

\* lines 160-165 and line 128: the footer, the close, and the end of main()
SaveClose ==
    /\ pc = "save_loop"
    /\ ~(idx < Len(ptpairs))
    /\ file' = file \o FooterText
    /\ fstate' = "closed"
    /\ saveRet' = Ret(0)
    /\ ret' = Ret(0)
    /\ pc' = "exit"
    /\ UNCHANGED << argv, options, img_path1, img_path2, inliers_path,
                    argvReads, trace, errlog, kpts1, kpts2, dist, matchersRun,
                    dmatches, matches, homography, inliers, ptpairs, idx,
                    accessed >>

-----------------------------------------------------------------------------
(* Specifications *)

\* the state of main() at line 65, before anything ran: its locals are
\* default-constructed
FreshOptions ==
    /\ options = AKAZEOptions
    /\ img_path1 = "" /\ img_path2 = "" /\ inliers_path = ""
    /\ argvReads = {}
    /\ trace = << >>
    /\ ret = NoRet
    /\ errlog = {}

FreshFeatures ==
    /\ kpts1 = << >> /\ kpts2 = << >> /\ dist = << >>

FreshMatches ==
    /\ matchersRun = << >>
    /\ dmatches = << >>
    /\ matches = << >>
    /\ homography = FALSE

FreshOutput ==
    /\ ptpairs = << >>
    /\ idx = 0
    /\ accessed = {}
    /\ file = << >>
    /\ fstate = "untouched"
    /\ saveRet = NoRet

Fresh ==
    /\ FreshOptions
    /\ FreshFeatures
    /\ FreshMatches
    /\ inliers = << >>
    /\ FreshOutput

\* a run of the program
Init ==
    /\ pc = "parse"
    /\ argv \in MainArgvs
    /\ Fresh

Next ==
    \/ ParseOptions
    \/ ParseOptionsUB
    \/ LoadImage1
    \/ LoadImage2
    \/ ExtractFeatures
    \/ MatchDescriptors
    \/ NndrFilter
    \/ ComputeInliers
    \/ SaveOpen
    \/ SaveRecord
    \/ SaveClose

Spec == Init /\ [][Next]_vars

\* parse_input_options on every argument vector of ParseArgvs
InitParse ==
    /\ pc = "parse"
    /\ argv \in ParseArgvs
    /\ Fresh

NextParse ==
    \/ ParseOptions
    \/ ParseOptionsUB

SpecParse == InitParse /\ [][NextParse]_vars

\* the matching stages (lines 113-122) on every pair of descriptor sets of
\* up to MaxQuery and KNN + 1 descriptors, for every descriptor type
InitMatch ==
    /\ pc = "knn"
    /\ argv = << "prog", "a.png", "a.png" >>
    /\ FreshOptions
    /\ \E n1 \in 0..MaxQuery, n2 \in 0..(KNN + 1) :
          /\ kpts1 = [q \in 1..n1 |-> [pt |-> Kpt1(q - 1)]]
          /\ kpts2 = [j \in 1..n2 |-> [pt |-> Kpt2(j - 1)]]
          /\ dist \in [1..n1 -> [1..n2 -> DistVals]]
    /\ FreshMatches
    /\ inliers = << >>
    /\ FreshOutput

NextMatch ==
    \/ MatchDescriptors
    \/ NndrFilter

SpecMatch == InitMatch /\ [][NextMatch]_vars

\* save_inliers on every list of up to MaxPts points
InitSave ==
    /\ pc = "save"
    /\ argv = << "prog", "a.png", "a.png" >>
    /\ FreshOptions
    /\ FreshFeatures
    /\ FreshMatches
    /\ inliers \in SeqsUpTo(PointsDomain, MaxPts)
    /\ FreshOutput

NextSave ==
    \/ SaveOpen
    \/ SaveRecord
    \/ SaveRecordPastEnd
    \/ SaveClose

SpecSave == InitSave /\ [][NextSave]_vars

-----------------------------------------------------------------------------
(* Reading a written file back: a reader of the output format, with the    *)
(* format's literals spelled out here                                      *)

DigitChars == { "0", "1", "2", "3", "4", "5", "6", "7", "8", "9" }

DigitValue(c) ==
    CASE c = "0" -> 0 [] c = "1" -> 1 [] c = "2" -> 2 [] c = "3" -> 3
      [] c = "4" -> 4 [] c = "5" -> 5 [] c = "6" -> 6 [] c = "7" -> 7
      [] c = "8" -> 8 [] c = "9" -> 9

Expect(f, p, lit) == p <= Len(f) /\ f[p] = lit

RECURSIVE ReadDigits(_, _, _, _)
ReadDigits(f, p, acc, n) ==
    IF p <= Len(f) /\ f[p] \in DigitChars
    THEN ReadDigits(f, p + 1, 10 * acc + DigitValue(f[p]), n + 1)
    ELSE [ok |-> n > 0, val |-> acc, pos |-> p]

ReadInt(f, p) ==
    IF Expect(f, p, "-")
    THEN LET r == ReadDigits(f, p + 1, 0, 0)
         IN  [ok |-> r.ok, val |-> -r.val, pos |-> r.pos]
    ELSE ReadDigits(f, p, 0, 0)

ReadRecord(f, p) ==
    LET x1 == ReadInt(f, p + 2)
        y1 == ReadInt(f, x1.pos + 1)
        x2 == ReadInt(f, y1.pos + 2)
        y2 == ReadInt(f, x2.pos + 1)
    IN  [ok |-> /\ Expect(f, p, "{")
                /\ Expect(f, p + 1, "\"pattern_point\": {\"x\": ")
                /\ x1.ok
                /\ Expect(f, x1.pos, ", \"y\": ")
                /\ y1.ok
                /\ Expect(f, y1.pos, "}, ")
                /\ Expect(f, y1.pos + 1, "\"image_point\": {\"x\": ")
                /\ x2.ok
                /\ Expect(f, x2.pos, ", \"y\": ")
                /\ y2.ok
                /\ Expect(f, y2.pos, "}")
                /\ Expect(f, y2.pos + 1, "}")
                /\ Expect(f, y2.pos + 2, "\n"),
         rec |-> [pattern_point |-> [x |-> x1.val, y |-> y1.val],
                  image_point |-> [x |-> x2.val, y |-> y2.val]],
         pos |-> y2.pos + 3]

RECURSIVE ReadRecords(_, _, _)
ReadRecords(f, p, acc) ==
    IF Expect(f, p, "]}")
    THEN [ok |-> Expect(f, p + 1, "\n") /\ Len(f) = p + 1, recs |-> acc]
    ELSE LET first == (acc = << >>)
             r == ReadRecord(f, IF first THEN p ELSE p + 1)
         IN  IF (first \/ Expect(f, p, ", ")) /\ r.ok
             THEN ReadRecords(f, r.pos, Append(acc, r.rec))
             ELSE [ok |-> FALSE, recs |-> acc]

\* ok: f is a complete file of the format; recs: its records
ReadFile(f) ==
    IF Expect(f, 1, "{\"points\": [") /\ Expect(f, 2, "\n")
    THEN ReadRecords(f, 3, << >>)
    ELSE [ok |-> FALSE, recs |-> << >>]

Ran(stage) == \E k \in 1..Len(trace) : trace[k] = stage

IsPrefix(s, t) == Len(s) <= Len(t) /\ \A k \in 1..Len(s) : s[k] = t[k]

\* the integer pixel the writer derives from a point
Pixel(p) == [x |-> RoundCoord(p.x), y |-> RoundCoord(p.y)]

\* w is q / Scale plus one half, truncated (q >= 0)
HalfUp(w, q) == 2 * w * Scale <= 2 * q + Scale /\ 2 * q + Scale < 2 * (w + 1) * Scale

\* no integer is nearer to q / Scale than w
Nearest(w, q) == \A z \in (w - 2)..(w + 2) :
                    (w * Scale - q) * (w * Scale - q)
                        <= (z * Scale - q) * (z * Scale - q)

-----------------------------------------------------------------------------
(* Claims about save_inliers, under SpecSave *)

\* the list handed over is a list of point pairs
ListOfPairs == Len(inliers) % 2 = 0

\* C1: when the destination opens, the file written for a list of n inlier
\* pairs is the "points" array of exactly n records, record k holding list
\* element 2k as pattern_point and element 2k+1 as image_point, in list
\* order; the empty list gives the empty array.
C1_OneRecordPerPairInOrder ==
    (fstate = "closed" /\ ListOfPairs) =>
        LET r == ReadFile(file)
        IN  /\ r.ok
            /\ Len(r.recs) = Len(inliers) \div 2
            /\ \A k \in 1..Len(r.recs) :
                  /\ r.recs[k].pattern_point = Pixel(inliers[2 * k - 1])
                  /\ r.recs[k].image_point = Pixel(inliers[2 * k])

C1_Witness ==
    /\ fstate = "closed"
    /\ Len(inliers) = 4
    /\ Pixel(inliers[1]) # Pixel(inliers[3])
    /\ Pixel(inliers[1]) # Pixel(inliers[2])
    /\ Len(ReadFile(file).recs) = 2

\* C2: every coordinate read back from the written file is the keypoint
\* coordinate plus one half, truncated, which is an integer nearest to it,
\* for all four coordinates of every record.
C2_CoordinatesRoundedToNearest ==
    (fstate = "closed" /\ ListOfPairs) =>
        LET r == ReadFile(file)
        IN  /\ r.ok
            /\ Len(r.recs) = Len(inliers) \div 2
            /\ \A k \in 1..Len(r.recs) :
                  LET a == inliers[2 * k - 1]
                      b == inliers[2 * k]
                      rec == r.recs[k]
                  IN  /\ HalfUp(rec.pattern_point.x, a.x)
                      /\ HalfUp(rec.pattern_point.y, a.y)
                      /\ HalfUp(rec.image_point.x, b.x)
                      /\ HalfUp(rec.image_point.y, b.y)
                      /\ Nearest(rec.pattern_point.x, a.x)
                      /\ Nearest(rec.pattern_point.y, a.y)
                      /\ Nearest(rec.image_point.x, b.x)
                      /\ Nearest(rec.image_point.y, b.y)

\* a coordinate with a fraction of one half or more was written, rounded up
C2_Witness ==
    /\ fstate = "closed"
    /\ Len(inliers) = 2
    /\ 2 * (inliers[1].x % Scale) >= Scale
    /\ ReadFile(file).ok
    /\ ReadFile(file).recs[1].pattern_point.x * Scale > inliers[1].x
    /\ ReadFile(file).recs[1].pattern_point.y >= 10

\* C4: when the destination cannot be opened, save_inliers writes the error
\* message, returns a non-zero value, writes nothing and reads nothing, and
\* the caller's list is what it handed over.
C4_OpenFailureReported ==
    fstate = "failed" =>
        /\ saveRet.done /\ saveRet.value # 0
        /\ "open" \in errlog
        /\ file = << >>
        /\ accessed = {}
        /\ inliers = ptpairs

C4_Witness ==
    /\ fstate = "failed"
    /\ saveRet = Ret(-1)
    /\ Len(inliers) = 4

\* C10: every index at which the record loop reads ptpairs is below the
\* size of the list, whatever its length.
C10_AccessesInsideList ==
    \A a \in accessed : a < Len(ptpairs)

-----------------------------------------------------------------------------
(* Claims about the matching stages, under SpecMatch *)

MinOf(S) == CHOOSE v \in S : \A u \in S : v <= u

\* the best distance of query q, the train descriptor that has it, and the
\* best distance among the other train descriptors
BestDist(q) == MinOf({ dist[q][j] : j \in 1..Len(dist[q]) })
BestTrain(q) == CHOOSE j \in 1..Len(dist[q]) : dist[q][j] = BestDist(q)
SecondDist(q) == MinOf({ dist[q][j] : j \in (1..Len(dist[q])) \ {BestTrain(q)} })

\* the ratio test at 0.80
PassesRatio(q) == Len(dist[q]) >= 2 /\ 100 * BestDist(q) < 80 * SecondDist(q)

AcceptedQueries == { q \in 1..Len(dist) : PassesRatio(q) }

\* C7: a descriptor of image A is accepted exactly when d1 < 0.80 * d2; the
\* candidate list holds one pair per accepted descriptor, the descriptor's
\* keypoint and its best match's keypoint, in A's order; a query with fewer
\* than 2 neighbours contributes nothing.
C7_NndrCandidates ==
    Ran("nndr") =>
        /\ Len(matches) = 2 * Cardinality(AcceptedQueries)
        /\ \A q \in AcceptedQueries :
              LET r == Cardinality({ a \in AcceptedQueries : a <= q })
              IN  /\ matches[2 * r - 1] = kpts1[q].pt
                  /\ matches[2 * r] = kpts2[BestTrain(q)].pt

\* two queries, the first rejected at the boundary 4 < 0.80 * 5 or by a tie,
\* the second accepted with its best match not the first train descriptor
C7_Witness ==
    /\ Ran("nndr")
    /\ Len(dist) = 2
    /\ AcceptedQueries = {2}
    /\ BestTrain(2) # 1
    /\ Len(matches) = 2

-----------------------------------------------------------------------------
(* Claims about parse_input_options, under SpecParse *)

\* C9: the parser reads no argv entry at an index >= argc, and a value
\* option that is the last argument makes it return -1.
C9_ReadsInsideArgv ==
    /\ \A a \in argvReads : a < Len(argv)
    /\ (Ran("parse") /\ Len(argv) >= 4 /\ argv[Len(argv)] \in ValueOptions
        /\ argv[2] # "--help" /\ argv[Len(argv) - 1] \notin ValueOptions)
       => ret = Ret(-1)

-----------------------------------------------------------------------------
(* Claims about a run of main(), under Spec *)

Ended == pc \in { "exit", "crashed" }

\* C3: at the end of a run the destination holds a complete file (header,
\* one record per inlier pair, closing bracket) or nothing was written.
C3_CompleteFileOrNone ==
    Ended =>
        \/ fstate \in { "untouched", "failed" } /\ file = << >>
        \/ /\ fstate = "closed"
           /\ ReadFile(file).ok
           /\ Len(ReadFile(file).recs) = Len(inliers) \div 2

\* a run that met too few candidates and one that filled the file
C3_Witness ==
    /\ pc = "exit"
    /\ Ran("ransac")
    /\ ~homography
    /\ Len(matches) \div 2 < 4
    /\ fstate = "closed"
    /\ ReadFile(file).ok

\* C5: with fewer than 4 candidate matches the run reports
\* InsufficientCorrespondences to its caller and fits no homography.
C5_InsufficientCorrespondencesSurfaced ==
    (Ended /\ Ran("ransac") /\ Len(matches) \div 2 < 4) =>
        /\ ~homography
        /\ \/ "InsufficientCorrespondences" \in errlog
           \/ (ret.done /\ ret.value # 0)

\* C6: the descriptor type is one of the enumeration, and once the matching
\* stage ran exactly one matcher was called: the L2 matcher for a type below
\* MLDB_UPRIGHT, the Hamming matcher otherwise.
C6_ExactlyOneMatcher ==
    /\ options.descriptor \in 0..MLDB
    /\ IF Ran("knn")
       THEN /\ Len(matchersRun) = 1
            /\ (options.descriptor < MLDB_UPRIGHT
                    => matchersRun[1] = "BruteForce")
            /\ (options.descriptor >= MLDB_UPRIGHT
                    => matchersRun[1] = "BruteForce-Hamming")
       ELSE matchersRun = << >>

C6_Witness ==
    /\ Ran("knn")
    /\ options.descriptor = MLDB_UPRIGHT
    /\ matchersRun = << "BruteForce-Hamming" >>

StageOrder ==
    << "parse", "load1", "load2", "extract", "knn", "nndr", "ransac", "save" >>

\* C8: the stages run in the fixed order, each at most once; when the parser
\* returns non-zero or an image fails to load, main returns -1 with no later
\* stage run and the destination untouched.
C8_StagesInOrder ==
    /\ IsPrefix(trace, StageOrder)
    /\ (Ran("parse") /\ ParseInputOptions(argv, ParseStart).ret # 0)
          => (trace = << "parse" >> /\ ret = Ret(-1) /\ pc = "exit")
    /\ "image1" \in errlog
          => (trace = << "parse", "load1" >> /\ ret = Ret(-1) /\ pc = "exit")
    /\ "image2" \in errlog
          => (trace = << "parse", "load1", "load2" >> /\ ret = Ret(-1)
              /\ pc = "exit")
    /\ ret = Ret(-1) => (fstate = "untouched" /\ file = << >> /\ ~Ran("save"))
    /\ fstate # "untouched" => trace = StageOrder

C8_Witness ==
    /\ pc = "exit"
    /\ "image2" \in errlog
    /\ trace = << "parse", "load1", "load2" >>
    /\ fstate = "untouched"

=============================================================================
